---- MODULE Spec2Model ----
(***************************************************************************)
(* Model of the Document CRUD backend: the `documents` table, the generic  *)
(* repository methods of Base (models.py), the Document helpers, the four  *)
(* handlers of /documents/ and the three schema handlers of /database/.    *)
(*                                                                         *)
(* Every awaited database statement of a handler is one atomic step; the   *)
(* handlers that issue several statements (create, delete) are in flight   *)
(* between them and interleave with the other requests.  Each statement    *)
(* sees the rows committed so far (the store's default isolation).         *)
(*                                                                         *)
(* A nullable value is a sequence of length at most one: <<>> is None/NULL *)
(* and <<v>> is the value v.  A string is a sequence of characters.        *)
(***************************************************************************)
EXTENDS Integers, Sequences, FiniteSets, TLC

VARIABLES tableExists, docs, uuids, pc, req, resp

vars == <<tableExists, docs, uuids, pc, req, resp>>

\* ---------------------------------------------------------------- bounds
\* uuid4 values the model generates (documents ever inserted)
MaxIds == 2
\* last day on which the model lets a request arrive (days count from 0)
MaxDay == 0
\* request handlers that can be in flight at once
MaxReqs == 2

\* timedelta(days=365) of update_document
ValidDays == 365

None == <<>>
Some(v) == <<v>>

Reqs == 1..MaxReqs

\* ---------------------------------------------------------------- inputs
Org1 == <<"o">>
NameAb == <<"A", "b">>
NameB == <<"b">>
Pini1 == <<"1">>
Pini2 == <<"2">>
Pass1 == <<"p", "p">>
Work1 == <<"w">>

\* DocumentCreate bodies (model_dump keeps every field, None when omitted)
CreateBody(o, n, p, s) ==
    [organization |-> o, full_name |-> n, pini |-> p, passport_series |-> s]

EmptyBody == CreateBody(None, None, None, None)

CreateBodies ==
    { CreateBody(Some(Org1), Some(NameAb), Some(Pini1), Some(Pass1)),
      CreateBody(Some(Org1), Some(NameB), Some(Pini1), Some(Pass1)),
      CreateBody(Some(Org1), Some(NameAb), Some(Pini2), Some(Pass1)),
      CreateBody(None, Some(NameAb), Some(Pini2), None) }

\* DocumentUpdate bodies: the set of <<field, value>> pairs the JSON body
\* carries; a pair with value None is a field sent as null
UpdateBodies ==
    { {},
      {<<"full_name", Some(NameB)>>},
      {<<"work_address", Some(Work1)>>, <<"a_type", Some(TRUE)>>},
      {<<"work_address", None>>, <<"a_type", None>>},
      {<<"pini", Some(Pini1)>>} }

\* query strings of GET /documents/ (None: the parameter is absent)
Queries == { None, Some(<<>>), Some(<<"a">>), Some(<<"_">>) }

\* ---------------------------------------------------------------- columns
\* columns declared Mapped[str] / Mapped[bool] without nullable=True
NotNullColumns ==
    {"organization", "full_name", "pini", "passport_series", "finish"}

\* (variant: a finish column whose default is True)
Document_finished(id, body) ==
    [ id |-> id,
      organization |-> body.organization,
      full_name |-> body.full_name,
      pini |-> body.pini,
      passport_series |-> body.passport_series,
      work_address |-> None,
      a_type |-> None,
      examination_date |-> None,
      valid_date |-> None,
      finish |-> Some(TRUE) ]
\* the row an INSERT of Document(**document_data.model_dump()) writes: the
\* body's columns, the column defaults (finish False, the others NULL) and
\* the generated primary key
Document(id, body) ==
    [ id |-> id,
      organization |-> body.organization,
      full_name |-> body.full_name,
      pini |-> body.pini,
      passport_series |-> body.passport_series,
      work_address |-> None,
      a_type |-> None,
      examination_date |-> None,
      valid_date |-> None,
      finish |-> Some(FALSE) ]

Columns == DOMAIN Document(0, EmptyBody)

\* (variant: a generator that returns the same identifier again)
uuid4_reused(n) == 1
\* default=uuid.uuid4: an identifier no earlier call returned (n calls so far)
uuid4(n) == n + 1

\* (variant: a table with a unique constraint on pini)
IntegrityError_unique_pini(store, row) ==
    \/ \E c \in NotNullColumns : row[c] = None
    \/ \E d \in store : d.id = row.id \/ d.pini = row.pini
\* the INSERT fails with IntegrityError: NULL in a NOT NULL column, or a
\* primary key some row has (the table has no other constraint)
IntegrityError(store, row) ==
    \/ \E c \in NotNullColumns : row[c] = None
    \/ \E d \in store : d.id = row.id

\* ---------------------------------------------------------------- LIKE
lower_char(c) == IF c = "A" THEN "a" ELSE IF c = "B" THEN "b" ELSE c

lower(s) == [i \in 1..Len(s) |-> lower_char(s[i])]

\* s LIKE p: % matches any run of characters, _ any one character, and a
\* backslash makes the next pattern character literal
RECURSIVE like(_, _)
like(s, p) ==
    IF p = <<>> THEN s = <<>>
    ELSE IF Head(p) = "%"
        THEN like(s, Tail(p)) \/ (s # <<>> /\ like(Tail(s), p))
    ELSE IF Head(p) = "\\" /\ Len(p) >= 2
        THEN s # <<>> /\ Head(s) = p[2] /\ like(Tail(s), Tail(Tail(p)))
    ELSE IF Head(p) = "_"
        THEN s # <<>> /\ like(Tail(s), Tail(p))
    ELSE s # <<>> /\ Head(s) = Head(p) /\ like(Tail(s), Tail(p))

\* column.ilike(pattern) on one row: NULL ILIKE p is NULL, which OR and WHERE
\* treat as not true
ilike(row, f) ==
    /\ row[f.column] # None
    /\ like(lower(row[f.column][1]), lower(f.pattern))

\* ---------------------------------------------------------------- Base
\* or_(*filters): true of a row when some filter is; or_() of no filter is
\* an empty clause list, which renders no WHERE clause, so every row passes
or_(row, filters) ==
    \/ filters = <<>>
    \/ \E i \in 1..Len(filters) : ilike(row, filters[i])

\* Base._execute_search with a condition built by or_: the matching rows
_execute_search(store, filters) == {d \in store : or_(d, filters)}

search_with_multi_filters(store, filters) == _execute_search(store, filters)

\* the result rows of select(cls).filter(or_(*filters)).options(*options), as
\* the number of result rows per primary record: a joinedload of a
\* collection LEFT OUTER JOINs the related table, so a record comes once per
\* related row (once when it has none); a selectinload adds no row
select_options(store, filters, options, children) ==
    [d \in {e \in store : or_(e, filters)} |->
        IF "joinedload" \in options /\ children[d.id] > 1
            THEN children[d.id] ELSE 1]

\* Base._execute_search with options: result.scalars().all().  On a result
\* with a joined eager load of a collection each row it yields raises
\* InvalidRequestError (unique() was not invoked)
_execute_search_options(store, filters, options, children) ==
    LET result == select_options(store, filters, options, children) IN
    IF "joinedload" \in options /\ DOMAIN result # {}
        THEN [kind |-> "error", rows |-> <<>>]
        ELSE [kind |-> "list", rows |-> result]

\* Base._execute_unique_search: result.unique().scalars().all() keeps each
\* primary record once
_execute_unique_search(store, filters, options, children) ==
    LET result == select_options(store, filters, options, children) IN
    [kind |-> "list", rows |-> [d \in DOMAIN result |-> 1]]

\* one eager-load option, passed on as options=[options]
search_with_options_and_multi_filters(store, option, filters, children) ==
    _execute_search_options(store, filters, {option}, children)

search_with_multi_options_and_multi_filters(store, options, filters, kids) ==
    _execute_unique_search(store, filters, options, kids)

\* Base.get: session.get(cls, id) -- the row or None
get(store, id) == {d \in store : d.id = id}

\* Base.get_all
get_all(store) == store

\* (variant: an existence check that finds nothing)
exist_never(store, pini) == FALSE
\* Document.exist_pini: Base.exist(Document.pini == pini), SELECT EXISTS(...)
exist_pini(store, pini) == \E d \in store : d.pini = pini

\* (variant: first(), which returns one of several matching rows)
get_by_pini_first(store, pini) ==
    LET rows == {d \in store : d.pini = pini} IN
    IF rows = {}
        THEN [kind |-> "null", rows |-> {}]
        ELSE [kind |-> "record", rows |-> {CHOOSE d \in rows : TRUE}]
\* (variant: a lookup that never finds a row)
get_by_pini_none(store, pini) == [kind |-> "null", rows |-> {}]
\* (variant: scalar_one(), which raises NoResultFound when no row matches)
get_by_pini_one(store, pini) ==
    LET rows == {d \in store : d.pini = pini} IN
    IF Cardinality(rows) # 1
        THEN [kind |-> "error", rows |-> {}]
        ELSE [kind |-> "record", rows |-> rows]
\* Base.get_where(Document.pini == pini): scalar_one_or_none() gives the row,
\* None when no row matches, and raises MultipleResultsFound for several
get_by_pini(store, pini) ==
    LET rows == {d \in store : d.pini = pini} IN
    IF Cardinality(rows) > 1
        THEN [kind |-> "error", rows |-> {}]
        ELSE [kind |-> IF rows = {} THEN "null" ELSE "record", rows |-> rows]

\* Document.search_by_query: three ILIKE filters on '%' + query + '%'
search_by_query(store, query) ==
    LET pattern == <<"%">> \o query \o <<"%">> IN
    search_with_multi_filters(store,
        << [column |-> "full_name", pattern |-> pattern],
           [column |-> "pini", pattern |-> pattern],
           [column |-> "passport_series", pattern |-> pattern] >>)

\* (variant: a dump that keeps the fields sent as null)
model_dump_keep_none(body) == body
\* document_data.model_dump(exclude_none=True, exclude_unset=True,
\* exclude_defaults=True): the fields sent with a value other than null
model_dump(body) == {kv \in body : kv[2] # None}

\* (variant: an update that writes every column, NULL where none is given)
values_replace(row, kwargs) ==
    [c \in Columns |->
        IF c = "id" THEN row[c]
        ELSE IF \E kv \in kwargs : kv[1] = c
            THEN (CHOOSE kv \in kwargs : kv[1] = c)[2]
            ELSE None]
\* .values(**kwargs): UPDATE documents SET kwargs, on one row
values(row, kwargs) ==
    [c \in Columns |->
        IF \E kv \in kwargs : kv[1] = c
            THEN (CHOOSE kv \in kwargs : kv[1] = c)[2]
            ELSE row[c]]

\* (variant: an update that inserts the row when no row matches)
update_upsert(store, id, kwargs) ==
    IF \E d \in store : d.id = id
        THEN {IF d.id = id THEN values(d, kwargs) ELSE d : d \in store}
        ELSE store \cup {values(Document(id, EmptyBody), kwargs)}
\* Base._update: the rows after UPDATE ... WHERE id = :id and its commit
_update(store, id, kwargs) ==
    {IF d.id = id THEN values(d, kwargs) ELSE d : d \in store}

\* the number of rows the UPDATE matched
rowcount(store, id) == Cardinality({d \in store : d.id = id})

\* (variant: a delete that is never committed)
delete_nothing(store, id) == store
\* Base._delete after its lookup found the instance: DELETE ... WHERE id = :id
delete_row(store, id) == {d \in store : d.id # id}

\* Base.save up to its commit: session.add(self) makes the new instance
\* pending and the commit flushes it as an INSERT, which raises
\* IntegrityError or stores the row
save(store, row) ==
    IF IntegrityError(store, row)
        THEN [kind |-> "error", rows |-> store]
        ELSE [kind |-> "record", rows |-> store \cup {row}]

\* Base.delete_all: session.delete(self.__class__) is given the mapped
\* class, not an instance, and raises UnmappedInstanceError before any
\* statement is issued
delete_all(store) == [kind |-> "error", rows |-> store]

\* ---------------------------------------------------------------- responses
\* what the step just taken returned to its caller (op "none": the step
\* returned nothing yet), with the request's id and query.  kind is record |
\* null | list | ack | result | status | error; rows are the documents of the
\* response body; deleted is the value Base._delete returned.
NoResp ==
    [ op |-> "none", kind |-> "none", id |-> 0 - 1, query |-> None,
      rows |-> {}, rowcount |-> 0 - 1, deleted |-> FALSE ]

\* (variant: a handler that catches the exception and answers not-found)
ServerError_caught(op) == [NoResp EXCEPT !.op = op, !.kind = "null"]
\* an uncaught store exception: the generic server error
ServerError(op) == [NoResp EXCEPT !.op = op, !.kind = "error"]

NoReq == [cbody |-> EmptyBody, id |-> 0]

\* identifiers a caller can send: any UUID, whether uuid4 has returned it yet
\* or not
ReqIds == 1..MaxIds

\* GET /documents/ parameters <<id, query>>; an absent id is written -1
GetParams ==
    {<<id, None>> : id \in ReqIds} \cup {<<0 - 1, q>> : q \in Queries}
        \cup {<<1, Some(<<"a">>)>>}

\* a new request takes the first free handler slot (the slots are alike)
Idle(r) == pc[r] = "idle" /\ \A q \in 1..(r - 1) : pc[q] # "idle"

Return(r) ==
    /\ pc' = [pc EXCEPT ![r] = "idle"]
    /\ req' = [req EXCEPT ![r] = NoReq]

\* a transaction that has read the table is open: DROP TABLE waits for it
InTransaction(r) == pc[r] \in {"save", "fetch", "delete"}

Init ==
    /\ tableExists = FALSE
    /\ docs = {}
    /\ uuids = 0
    /\ pc = [r \in Reqs |-> "idle"]
    /\ req = [r \in Reqs |-> NoReq]
    /\ resp = NoResp

\* ---------------------------------------------------------------- POST
\* create_document, first statement: new_document.exist_pini(session)
CreateExistPini(r, body) ==
    /\ Idle(r)
    /\ \/ tableExists /\ exist_pini(docs, body.pini)
       \/ uuids + Cardinality({q \in Reqs : pc[q] = "save"}) < MaxIds
    /\ IF ~tableExists
        THEN /\ resp' = ServerError("create")
             /\ UNCHANGED <<pc, req>>
        ELSE /\ pc' = [pc EXCEPT ![r] =
                    IF exist_pini(docs, body.pini) THEN "fetch" ELSE "save"]
             /\ req' = [req EXCEPT ![r] =
                    IF exist_pini(docs, body.pini)
                        THEN [cbody |-> [EmptyBody EXCEPT !.pini = body.pini],
                              id |-> 0]
                        ELSE [cbody |-> body, id |-> 0]]
             /\ resp' = NoResp
    /\ UNCHANGED <<tableExists, docs, uuids>>

\* new_document.save(session): session.add, commit (the INSERT)
CreateSave(r) ==
    /\ pc[r] = "save"
    /\ LET id == uuid4(uuids)
           saved == save(docs, Document(id, req[r].cbody)) IN
       /\ uuids' = uuids + 1
       /\ docs' = saved.rows
       /\ IF saved.kind = "error"
            THEN /\ resp' = ServerError("create")
                 /\ Return(r)
            ELSE /\ pc' = [pc EXCEPT ![r] = "refresh"]
                 /\ req' = [req EXCEPT ![r] = [cbody |-> EmptyBody, id |-> id]]
                 /\ resp' = NoResp
    /\ UNCHANGED tableExists

\* save, continued: session.refresh(self) reloads the row by primary key and
\* raises when the table or the row is gone; the handler returns the document
CreateRefresh(r) ==
    /\ pc[r] = "refresh"
    /\ LET rows == get(docs, req[r].id) IN
       resp' = IF ~tableExists \/ rows = {}
                 THEN ServerError("create")
                 ELSE [NoResp EXCEPT !.op = "create", !.kind = "record",
                                     !.rows = rows]
    /\ Return(r)
    /\ UNCHANGED <<tableExists, docs, uuids>>

\* the else branch: return await new_document.get_by_pini(session)
CreateGetByPini(r) ==
    /\ pc[r] = "fetch"
    /\ LET found == get_by_pini(docs, req[r].cbody.pini) IN
       resp' = [NoResp EXCEPT !.op = "fetch", !.kind = found.kind,
                              !.rows = found.rows]
    /\ Return(r)
    /\ UNCHANGED <<tableExists, docs, uuids>>

\* ---------------------------------------------------------------- GET
\* (variant: a dispatch that looks at the query before the id)
get_documents_query_first(store, id, query) ==
    IF query # None /\ query # Some(<<>>)
        THEN [NoResp EXCEPT !.op = "search", !.query = query,
                !.kind = "list", !.rows = search_by_query(store, query[1])]
    ELSE IF id # 0 - 1
        THEN [NoResp EXCEPT !.op = "get", !.id = id,
                !.kind = IF get(store, id) = {} THEN "null" ELSE "record",
                !.rows = get(store, id)]
    ELSE [NoResp EXCEPT !.op = "list",
                !.kind = "list", !.rows = get_all(store)]
\* what get_documents returns: if id, the document get finds or None; elif
\* query (a non-empty string), the search result; else all documents
get_documents(store, id, query) ==
    IF id # 0 - 1
        THEN [NoResp EXCEPT !.op = "get", !.id = id,
                !.kind = IF get(store, id) = {} THEN "null" ELSE "record",
                !.rows = get(store, id)]
    ELSE IF query # None /\ query # Some(<<>>)
        THEN [NoResp EXCEPT !.op = "search", !.query = query,
                !.kind = "list", !.rows = search_by_query(store, query[1])]
    ELSE [NoResp EXCEPT !.op = "list",
                !.kind = "list", !.rows = get_all(store)]

\* get_documents as a request: its statements only read the table
GetDocuments(id, query) ==
    /\ resp' = IF ~tableExists THEN ServerError("get")
                                ELSE get_documents(docs, id, query)
    /\ UNCHANGED <<tableExists, docs, uuids, pc, req>>

\* ---------------------------------------------------------------- PATCH
\* the dates datetime.now() can return at its two calls in update_document:
\* the second call comes later and can fall on the next day
Clock == {<<now1, now2>> \in (0..MaxDay) \X (0..(MaxDay + 1)) :
            now2 \in {now1, now1 + 1}}

\* (variant: an update that stamps examination_date only)
update_kwargs_examination_only(body, now) ==
    model_dump(body) \cup { <<"examination_date", Some(now[1])>> }
\* the keyword arguments update_document passes to _update
update_kwargs(body, now) ==
    model_dump(body) \cup
        { <<"examination_date", Some(now[1])>>,
          <<"valid_date", Some(now[2] + ValidDays)>> }

\* update_document on the store: Document(id=id)._update(session, **kwargs),
\* one UPDATE statement and its commit
update_document(store, id, body, now) ==
    _update(store, id, update_kwargs(body, now))

\* what update_document returns: the statement's result, whatever it matched
update_result(store, id) ==
    [NoResp EXCEPT !.op = "update", !.kind = "result", !.id = id,
                   !.rowcount = rowcount(store, id)]

UpdateDocument(id, body, now) ==
    /\ IF ~tableExists
        THEN /\ resp' = ServerError("update")
             /\ UNCHANGED docs
        ELSE /\ docs' = update_document(docs, id, body, now)
             /\ resp' = update_result(docs, id)
    /\ UNCHANGED <<tableExists, uuids, pc, req>>

\* ---------------------------------------------------------------- DELETE
\* delete_document up to the lookup: document.get(session), whose result the
\* handler discards, then session.get in Base._delete (one step: nothing
\* depends on the first read).  With no instance _delete returns False, and
\* the handler returns {"detail": "document deleted"} whatever it returned
DeleteGet(r, id) ==
    /\ Idle(r)
    /\ IF ~tableExists
        THEN /\ resp' = ServerError("delete")
             /\ UNCHANGED <<pc, req>>
        ELSE IF get(docs, id) = {}
        THEN /\ resp' = [NoResp EXCEPT !.op = "delete", !.kind = "ack",
                            !.id = id, !.deleted = FALSE]
             /\ UNCHANGED <<pc, req>>
        ELSE /\ pc' = [pc EXCEPT ![r] = "delete"]
             /\ req' = [req EXCEPT ![r] = [cbody |-> EmptyBody, id |-> id]]
             /\ resp' = NoResp
    /\ UNCHANGED <<tableExists, docs, uuids>>

\* Base._delete: session.delete(instance), commit, return True
DeleteCommit(r) ==
    /\ pc[r] = "delete"
    /\ docs' = delete_row(docs, req[r].id)
    /\ resp' = [NoResp EXCEPT !.op = "delete", !.kind = "ack",
                    !.id = req[r].id, !.deleted = TRUE]
    /\ Return(r)
    /\ UNCHANGED <<tableExists, uuids>>

\* ---------------------------------------------------------------- /database
\* the schema and the rows of the database, as the schema handlers see it
Database == [exists |-> tableExists, rows |-> docs]

\* (variant: a drop_all that drops nothing)
drop_all_skipped(db) == db
\* Base.metadata.drop_all: DROP TABLE for the tables that exist
drop_all(db) == [exists |-> FALSE, rows |-> {}]

\* (variant: a create_all that replaces the tables that exist)
create_all_replace(db) == [exists |-> TRUE, rows |-> {}]
\* Base.metadata.create_all (checkfirst): CREATE TABLE for the tables that are
\* absent, nothing for those that exist
create_all(db) == IF db.exists THEN db ELSE [exists |-> TRUE, rows |-> {}]

\* init_database: create_all
InitDatabase ==
    /\ tableExists' = create_all(Database).exists
    /\ docs' = create_all(Database).rows
    /\ resp' = [NoResp EXCEPT !.op = "init", !.kind = "status"]
    /\ UNCHANGED <<uuids, pc, req>>

\* drop_database: drop_all
DropDatabase ==
    /\ \A r \in Reqs : ~InTransaction(r)
    /\ tableExists' = drop_all(Database).exists
    /\ docs' = drop_all(Database).rows
    /\ resp' = [NoResp EXCEPT !.op = "drop", !.kind = "status"]
    /\ UNCHANGED <<uuids, pc, req>>

\* reload_database: drop_all then create_all in one transaction
ReloadDatabase ==
    /\ \A r \in Reqs : ~InTransaction(r)
    /\ tableExists' = create_all(drop_all(Database)).exists
    /\ docs' = create_all(drop_all(Database)).rows
    /\ resp' = [NoResp EXCEPT !.op = "reload", !.kind = "status"]
    /\ UNCHANGED <<uuids, pc, req>>

Next ==
    \/ \E r \in Reqs, body \in CreateBodies : CreateExistPini(r, body)
    \/ \E r \in Reqs : CreateSave(r)
    \/ \E r \in Reqs : CreateRefresh(r)
    \/ \E r \in Reqs : CreateGetByPini(r)
    \/ \E p \in GetParams : GetDocuments(p[1], p[2])
    \/ \E id \in ReqIds, body \in UpdateBodies, now \in Clock :
            UpdateDocument(id, body, now)
    \/ \E r \in Reqs, id \in ReqIds : DeleteGet(r, id)
    \/ \E r \in Reqs : DeleteCommit(r)
    \/ InitDatabase
    \/ DropDatabase
    \/ ReloadDatabase

Spec == Init /\ [][Next]_vars

\* ------------------------------------------------------- one at a time
\* the update bodies that carry no pini
NoPiniUpdates == {body \in UpdateBodies : \A kv \in body : kv[1] # "pini"}

\* no request is in flight
AllIdle == \A r \in Reqs : pc[r] = "idle"

\* the requests arrive one after the other (a request starts only when no
\* other is in flight) and no update body carries pini
NextSequential ==
    \/ \E r \in Reqs, body \in CreateBodies :
            AllIdle /\ CreateExistPini(r, body)
    \/ \E r \in Reqs : CreateSave(r)
    \/ \E r \in Reqs : CreateRefresh(r)
    \/ \E r \in Reqs : CreateGetByPini(r)
    \/ \E p \in GetParams : AllIdle /\ GetDocuments(p[1], p[2])
    \/ \E id \in ReqIds, body \in NoPiniUpdates, now \in Clock :
            AllIdle /\ UpdateDocument(id, body, now)
    \/ \E r \in Reqs, id \in ReqIds : AllIdle /\ DeleteGet(r, id)
    \/ \E r \in Reqs : DeleteCommit(r)
    \/ AllIdle /\ InitDatabase
    \/ AllIdle /\ DropDatabase
    \/ AllIdle /\ ReloadDatabase

SpecSequential == Init /\ [][NextSequential]_vars

\* ================================================================ claims
BodyFields(body) == {kv[1] : kv \in body}

Stamped == {"examination_date", "valid_date"}

WithPini(store, p) == {d \in store : d.pini = p}

BodyOf(d) ==
    CreateBody(d.organization, d.full_name, d.pini, d.passport_series)

\* q occurs in s as a literal substring, ignoring case
Contains(s, q) ==
    \E i \in 0..Len(s) : \E j \in i..Len(s) :
        lower(SubSeq(s, i + 1, j)) = lower(q)

\* C1: a create request whose pini exactly one stored document has takes the
\* fetch branch, returns that stored document and leaves the store as it was
C1_IdempotentCreate ==
    [][\A r \in Reqs :
        /\ (pc[r] = "idle" /\ pc'[r] \in {"save", "fetch"}
                /\ WithPini(docs, req'[r].cbody.pini) # {})
            => (pc'[r] = "fetch" /\ docs' = docs)
        /\ (pc[r] = "fetch" /\ pc'[r] = "idle"
                /\ Cardinality(WithPini(docs, req[r].cbody.pini)) = 1)
            => /\ resp'.op = "fetch" /\ resp'.kind = "record"
               /\ resp'.rows = WithPini(docs, req[r].cbody.pini)
               /\ docs' = docs]_vars

\* C1 witness: a create request has just returned a stored document
C1_Witness ==
    /\ resp.op = "fetch" /\ resp.kind = "record"
    /\ resp.rows \subseteq docs /\ Cardinality(resp.rows) = 1

\* C2 (as claimed): a create request whose pini no stored document has
\* inserts exactly one row carrying the request's fields under an id no
\* stored document has, and leaves the other documents unchanged
C2_FreshCreateInserts ==
    [][\A r \in Reqs :
        (pc[r] = "save" /\ pc'[r] # "save"
            /\ WithPini(docs, req[r].cbody.pini) = {})
        => /\ pc'[r] = "refresh"
           /\ \E row \in docs' :
                /\ docs' = docs \cup {row}
                /\ BodyOf(row) = req[r].cbody
                /\ \A d \in docs : d.id # row.id]_vars

\* C3: no uniqueness constraint on pini: a create request that found no
\* document with its pini inserts its row even when, by the time of its
\* INSERT, another request has stored a document with that pini
C3_RacingCreatesBothInsert ==
    [][\A r \in Reqs :
        (pc[r] = "save" /\ pc'[r] # "save"
            /\ WithPini(docs, req[r].cbody.pini) # {}
            /\ \A c \in DOMAIN req[r].cbody : req[r].cbody[c] # None)
        => /\ pc'[r] = "refresh"
           /\ Cardinality(docs') = Cardinality(docs) + 1
           /\ Cardinality(WithPini(docs', req[r].cbody.pini))
                = Cardinality(WithPini(docs, req[r].cbody.pini)) + 1]_vars

\* C3 witness: two stored documents share pini "2", which only create
\* requests write (no update body carries it)
C3_Witness == Cardinality(WithPini(docs, Some(Pini2))) = 2

\* C4 (as claimed): a create request that returns never returns null
C4_CreateNeverNull == resp.op \in {"create", "fetch"} => resp.kind # "null"

\* C5 (as claimed): after an update of an existing document there is one
\* update time t with examination_date = t and valid_date = t + 365 days
C5_ValidDateIs365DaysAfter ==
    (resp.op = "update" /\ resp.kind = "result") =>
        \A d \in docs : d.id = resp.id =>
            \E t \in 0..(MaxDay + 1) :
                /\ d.examination_date = Some(t)
                /\ d.valid_date = Some(t + ValidDays)

\* C6: in every reachable state, whichever update request arrives, it changes
\* only the fields its body carries and the two stamped dates of the
\* document with its id, and no other document
C6_PartialUpdateFrame ==
    \A id \in ReqIds, body \in UpdateBodies, now \in Clock :
        LET after == update_document(docs, id, body, now) IN
        /\ Cardinality(after) = Cardinality(docs)
        /\ \A d \in docs : d.id # id => d \in after
        /\ \A d \in docs : d.id = id =>
                \E e \in after :
                    /\ e.id = id
                    /\ \A c \in Columns \ (BodyFields(body) \cup Stamped) :
                            e[c] = d[c]

\* C6 witness: an update has just been applied to a document that holds both
\* the full_name and the work_address that two different update bodies carry
C6_Witness ==
    /\ resp.op = "update" /\ resp.rowcount = 1
    /\ \E d \in docs :
        /\ d.id = resp.id
        /\ d.full_name = Some(NameB) /\ d.pini = Some(Pini2)
        /\ d.work_address = Some(Work1)

\* C7 (as claimed): a search returns exactly the documents in which the query
\* occurs, ignoring case, as a literal substring of one of the three fields
C7_SearchIsLiteralSubstring ==
    resp.op = "search" =>
        resp.rows =
            {d \in docs :
                \E c \in {"full_name", "pini", "passport_series"} :
                    d[c] # None /\ Contains(d[c][1], resp.query[1])}

\* C8 (as claimed): the delete handler acknowledges a deletion only when its
\* request removed a document
C8_AckOnlyWhenDeleted ==
    (resp.op = "delete" /\ resp.kind = "ack") => resp.deleted

\* C9: Base._delete returns False and changes nothing when its lookup finds
\* no row; it returns True only after its lookup found the row, and then
\* no row with that id is left and every other row is as it was
C9_DeleteReturn ==
    [][/\ (resp'.op = "delete" /\ ~resp'.deleted)
            => (docs' = docs /\ get(docs, resp'.id) = {})
       /\ \A r \in Reqs :
            /\ (pc[r] = "idle" /\ pc'[r] = "delete")
                => get(docs, req'[r].id) # {}
            /\ (pc[r] = "delete" /\ pc'[r] = "idle")
                => /\ resp'.op = "delete" /\ resp'.deleted
                   /\ docs' = {d \in docs : d.id # req[r].id}
                   /\ get(docs', req[r].id) = {}]_vars

\* C9 witness: _delete has just returned True and removed one of two rows
C9_Witness ==
    /\ resp.op = "delete" /\ resp.deleted
    /\ docs # {} /\ get(docs, resp.id) = {}

\* C10: in every reachable state, an update request for an id no document
\* has gives the statement's result with zero rows matched and leaves the
\* store as it was; after such an update still no document has that id
C10_UpdateOfMissingId ==
    /\ tableExists =>
        \A id \in ReqIds, body \in UpdateBodies, now \in Clock :
            get(docs, id) = {} =>
                /\ update_document(docs, id, body, now) = docs
                /\ update_result(docs, id).kind = "result"
                /\ update_result(docs, id).rowcount = 0
    /\ (resp.op = "update" /\ resp.rowcount = 0) => get(docs, resp.id) = {}

\* C10 witness: an update has just matched no row of a store that holds one
C10_Witness ==
    /\ resp.op = "update" /\ resp.kind = "result" /\ resp.rowcount = 0
    /\ docs # {}

\* the fields of a create body that the request left out
Omitted(body) == {c \in DOMAIN body : body[c] = None}

\* C11 (as claimed): a create request that leaves out some of the optional
\* fields, and whose pini no stored document has, is not rejected by the
\* store: its INSERT persists a document whose omitted fields are unset
C11_OptionalFieldsMayBeOmitted ==
    [][\A r \in Reqs :
        (pc[r] = "save" /\ pc'[r] # "save" /\ Omitted(req[r].cbody) # {})
        => /\ resp'.kind # "error"
           /\ \E row \in docs' \ docs :
                \A c \in DOMAIN req[r].cbody : row[c] = req[r].cbody[c]]_vars

\* C12: a read request leaves the store as it was and returns what the
\* dispatch gives for its parameters; and in every state in which reads are
\* served, whichever read request arrives, with an id it gets the one
\* document of that id or not-found, with no id and a query it gets the
\* search result for that query, and with neither it gets all documents
C12_ReadDispatch ==
    [][(resp'.op \in {"get", "search", "list"} /\ resp'.kind # "error") =>
        /\ docs' = docs /\ tableExists' = tableExists
        /\ resp' = get_documents(docs, resp'.id, resp'.query)
        /\ resp'.op = "list" =>
            \A p \in GetParams :
                LET found == get_documents(docs, p[1], p[2]) IN
                IF p[1] # 0 - 1
                    THEN /\ found.rows = {d \in docs : d.id = p[1]}
                         /\ found.kind =
                                IF found.rows = {} THEN "null" ELSE "record"
                ELSE IF p[2] # None
                    THEN /\ found.kind = "list"
                         /\ found.rows = search_by_query(docs, p[2][1])
                ELSE found.kind = "list" /\ found.rows = docs]_vars

\* C12 witness: a search has just returned one of two stored documents
C12_Witness ==
    /\ resp.op = "search" /\ Cardinality(docs) = 2
    /\ Cardinality(resp.rows) = 1 /\ resp.rows \subseteq docs

\* C13: a reload leaves an empty table with no INSERT pending; an empty table
\* gets its first row only from a create request, which starts as a new
\* request; and get-all on an empty table returns an empty sequence
C13_ReloadThenGetAllEmpty ==
    [][/\ resp'.op = "reload" =>
            /\ tableExists' /\ docs' = {} /\ get_all(docs') = {}
            /\ \A r \in Reqs : pc'[r] # "save"
       /\ (docs = {} /\ docs' # {}) =>
            \E r \in Reqs : pc[r] = "save" /\ pc'[r] = "refresh"
       /\ \A r \in Reqs : (pc[r] # "save" /\ pc'[r] = "save") => pc[r] = "idle"
       /\ (resp'.op = "list" /\ resp'.kind = "list" /\ docs = {}) =>
            resp'.rows = {}]_vars

\* C13 witness: a reload has just completed while a create request is between
\* its INSERT and its refresh, and the row it inserted is no longer stored
C13_Witness ==
    /\ resp.op = "reload"
    /\ \E r \in Reqs : pc[r] = "refresh" /\ get(docs, req[r].id) = {}

\* the columns DocumentCreate has no field for are at their defaults
AtDefaults(d) ==
    /\ d.finish = Some(FALSE)
    /\ d.work_address = None /\ d.a_type = None
    /\ d.examination_date = None /\ d.valid_date = None

\* C14 (as claimed): every document the create handler returns from a
\* successful insert has finish = false and the update-only fields unset
C14_CreatedHasDefaults ==
    (resp.op = "create" /\ resp.kind = "record") =>
        \A d \in resp.rows : AtDefaults(d)

\* C14 (amended): the row the create handler inserts has finish = false and
\* the update-only fields unset, whatever the body; the handler returns the
\* row stored under the inserted id when save reloads it; and a stored row
\* changes only by an update request
C14_InsertedRowHasDefaults ==
    [][/\ \A r \in Reqs :
            /\ (pc[r] = "save" /\ pc'[r] = "refresh") =>
                    \E row \in docs' :
                        /\ docs' \ docs = {row}
                        /\ row.id = req'[r].id /\ AtDefaults(row)
            /\ (pc[r] = "refresh" /\ pc'[r] = "idle"
                    /\ resp'.kind = "record") =>
                    /\ resp'.op = "create"
                    /\ resp'.rows = get(docs, req[r].id)
       /\ \A d \in docs, e \in docs' :
            (d.id = e.id /\ d # e) => resp'.op = "update"]_vars

\* C14 witness: the create handler has just returned the document it
\* inserted, with finish = false and the update-only fields unset
C14_Witness ==
    /\ resp.op = "create" /\ resp.kind = "record"
    /\ resp.rows # {} /\ resp.rows \subseteq docs
    /\ \A d \in resp.rows : AtDefaults(d)

Pinis == {body.pini : body \in CreateBodies}

\* C16: in every reachable state with the table present, a lookup by id or
\* by pini that matches no row gives the not-found value and no error, and a
\* search or get-all that matches no row gives an empty list, neither an
\* error nor the not-found value; the responses sent agree with this
C16_NotFoundVersusEmpty ==
    /\ tableExists =>
        /\ \A id \in ReqIds : get(docs, id) = {} =>
                get_documents(docs, id, None).kind = "null"
        /\ \A pini \in Pinis : ~exist_pini(docs, pini) =>
                get_by_pini(docs, pini) = [kind |-> "null", rows |-> {}]
        /\ \A q \in Queries \ {None, Some(<<>>)} :
                search_by_query(docs, q[1]) = {} =>
                    /\ get_documents(docs, 0 - 1, q).kind = "list"
                    /\ get_documents(docs, 0 - 1, q).rows = {}
        /\ get_all(docs) = {} =>
                /\ get_documents(docs, 0 - 1, None).kind = "list"
                /\ get_documents(docs, 0 - 1, None).rows = {}
        /\ resp.op \in {"get", "search", "list", "fetch"} =>
                resp.kind # "error" \/ resp.op = "fetch"
    /\ resp.kind = "null" => resp.op \in {"get", "fetch"} /\ resp.rows = {}
    /\ resp.op \in {"search", "list"} => resp.kind \in {"list", "error"}

\* C16 witness: a lookup by id has just returned not-found from a table that
\* holds a document
C16_Witness == resp.op = "get" /\ resp.kind = "null" /\ docs # {}

\* the operations of the document handlers
DocumentOps ==
    {"create", "fetch", "get", "search", "list", "update", "delete"}

\* C17: while the table is absent, every step other than a schema request is
\* a document request ending in the generic server error, and it leaves the
\* table absent and the store as it was
C17_DroppedStoreFailsRequests ==
    [][(~tableExists /\ resp'.op \notin {"init", "reload", "drop"}) =>
        /\ resp'.op \in DocumentOps /\ resp'.kind = "error"
        /\ ~tableExists' /\ docs' = docs]_vars

\* C17 witness: an update has just failed on a store that once held the
\* table (an INSERT was attempted) and has it no more
C17_Witness ==
    /\ ~tableExists /\ uuids > 0
    /\ resp.op = "update" /\ resp.kind = "error"

\* C18: an init request leaves the table present and every stored document
\* as it was, and create_all applied to the database it leaves changes
\* nothing (a second init gives the state the first gave)
C18_InitCreatesOnlyIfAbsent ==
    [][resp'.op = "init" =>
        /\ tableExists' /\ docs' = docs
        /\ LET once == create_all(Database) IN
           /\ once = [exists |-> tableExists', rows |-> docs']
           /\ create_all(once) = once]_vars

\* C18 witness: an init request has just completed on a table that holds a
\* document
C18_Witness == resp.op = "init" /\ tableExists /\ docs # {}

\* the create bodies that leave out no field
FullBodies == {body \in CreateBodies : Omitted(body) = {}}

\* C19 (as claimed): in every reachable state, save of a record with every
\* required field succeeds whether or not a stored row has the record's
\* primary key, and afterwards exactly one row has that key, it holds the
\* record's fields, and the other rows are as they were
C19_SaveIsUpsert ==
    tableExists =>
        \A id \in ReqIds, body \in FullBodies :
            LET row == Document(id, body)
                saved == save(docs, row) IN
            /\ saved.kind = "record"
            /\ get(saved.rows, id) = {row}
            /\ \A d \in docs : d.id # id => d \in saved.rows

\* C20 (as claimed): delete_all on a table that holds documents succeeds
\* and leaves get-all empty
C20_DeleteAllErasesRows ==
    (tableExists /\ docs # {}) =>
        /\ delete_all(docs).kind # "error"
        /\ get_all(delete_all(docs).rows) = {}

\* lists of ILIKE predicates a caller can pass to search_with_multi_filters
NameHasA == [column |-> "full_name", pattern |-> <<"%", "a", "%">>]
PiniIs1 == [column |-> "pini", pattern |-> <<"1">>]
FilterLists ==
    { <<>>, <<NameHasA>>, <<PiniIs1>>, <<NameHasA, PiniIs1>>,
      <<PiniIs1, NameHasA, PiniIs1>> }

\* C21 (as claimed): for every list of predicates and every reachable store,
\* search_with_multi_filters returns exactly the records that satisfy at
\* least one predicate of the list
C21_MultiFilterIsUnion ==
    \A filters \in FilterLists :
        search_with_multi_filters(docs, filters) =
            {d \in docs : \E i \in 1..Len(filters) : ilike(d, filters[i])}

\* C22: get_by_pini, as the create handler calls it and for every pini of
\* the input set, returns the matching document when exactly one stored
\* document has the pini and not-found when none has, and the call leaves
\* the store as it was
C22_GetWhereOneOrNone ==
    [][\A r \in Reqs : (pc[r] = "fetch" /\ pc'[r] = "idle") =>
        /\ docs' = docs /\ tableExists' = tableExists
        /\ resp'.kind = get_by_pini(docs, req[r].cbody.pini).kind
        /\ resp'.rows = get_by_pini(docs, req[r].cbody.pini).rows
        /\ \A pini \in Pinis :
            LET rows == WithPini(docs, pini) IN
            /\ Cardinality(rows) = 1 =>
                    get_by_pini(docs, pini) = [kind |-> "record", rows |-> rows]
            /\ rows = {} =>
                    get_by_pini(docs, pini) = [kind |-> "null", rows |-> {}]]_vars

\* C22 witness: get_by_pini has just returned not-found from a table that
\* holds a document with another pini
C22_Witness == resp.op = "fetch" /\ resp.kind = "null" /\ docs # {}

\* eager-load directives for a one-to-many relationship of the entity
EagerLoads == {"joinedload", "selectinload"}

\* related rows per primary record (by id): none, or two for each
Children == {[id \in ReqIds |-> 0], [id \in ReqIds |-> 2]}

\* the primary records of a search result, each exactly once
Once(records) == [kind |-> "list", rows |-> [d \in records |-> 1]]

\* C23 (as claimed): for every predicate list, eager load and number of
\* related rows, both option-taking searches return the records that
\* search_with_multi_filters returns, each exactly once
C23_OptionsIndependentOfFilters ==
    \A filters \in FilterLists, option \in EagerLoads, children \in Children :
        LET records == search_with_multi_filters(docs, filters) IN
        /\ search_with_options_and_multi_filters(docs, option, filters,
                children) = Once(records)
        /\ search_with_multi_options_and_multi_filters(docs, {option},
                filters, children) = Once(records)

\* C24: while two stored documents share a pini, a create request with that
\* pini takes the fetch branch, and its get_by_pini ends in an error,
\* returns no document and leaves the store as it was
C24_DuplicatePiniCreateFails ==
    [][\A r \in Reqs :
        /\ (pc[r] = "idle" /\ pc'[r] \in {"save", "fetch"}
                /\ Cardinality(WithPini(docs, req'[r].cbody.pini)) >= 2)
            => (pc'[r] = "fetch" /\ docs' = docs)
        /\ (pc[r] = "fetch" /\ pc'[r] = "idle"
                /\ Cardinality(WithPini(docs, req[r].cbody.pini)) >= 2)
            => /\ resp' = [ServerError("fetch") EXCEPT !.rows = {}]
               /\ docs' = docs]_vars

\* C24 witness: a create request has just ended in an error while two stored
\* documents share a pini
C24_Witness ==
    /\ resp.op = "fetch" /\ resp.kind = "error"
    /\ \E pini \in Pinis : Cardinality(WithPini(docs, pini)) = 2

\* C25: when the requests do not overlap and no update body carries pini, no
\* two stored documents share a pini
C25_SequentialPiniUnique ==
    \A d \in docs, e \in docs : d.pini = e.pini => d = e

\* C25 witness: with two documents stored, a create request has just been
\* answered with the stored document of its pini
C25_Witness ==
    /\ Cardinality(docs) = 2
    /\ resp.op = "fetch" /\ resp.kind = "record" /\ resp.rows \subseteq docs

\* the ids of the stored documents
Ids(store) == {d.id : d \in store}

\* C26: an update request leaves the set of stored ids as it was; an id joins
\* the set only by the INSERT of a create request and leaves it only by a
\* delete request's commit, a drop or a reload
C26_UpdateKeepsIds ==
    [][/\ resp'.op = "update" => Ids(docs') = Ids(docs)
       /\ Ids(docs') \ Ids(docs) # {} =>
            \E r \in Reqs : pc[r] = "save" /\ pc'[r] = "refresh"
       /\ Ids(docs) \ Ids(docs') # {} =>
            \/ \E r \in Reqs : pc[r] = "delete" /\ pc'[r] = "idle"
            \/ resp'.op \in {"drop", "reload"}]_vars

\* C26 witness: an update has just been answered for an id that was
\* generated earlier and that no stored document has any more
C26_Witness ==
    /\ resp.op = "update" /\ resp.kind = "result"
    /\ resp.id <= uuids /\ get(docs, resp.id) = {}

\* pairs of update bodies that each supply a value and that supply disjoint
\* sets of fields
DisjointUpdates ==
    {pair \in UpdateBodies \X UpdateBodies :
        /\ model_dump(pair[1]) # {} /\ model_dump(pair[2]) # {}
        /\ BodyFields(pair[1]) \cap BodyFields(pair[2]) = {}}

\* C27: in every reachable state, when two update requests for the same id
\* supply disjoint sets of fields, then in either order of their UPDATE
\* statements the document holds, after both, each value either of them
\* supplied
C27_NoLostUpdate ==
    \A id \in ReqIds, pair \in DisjointUpdates, now \in Clock :
        LET first == update_document(docs, id, pair[1], now)
            after == update_document(first, id, pair[2], now) IN
        \A d \in after : d.id = id =>
            \A kv \in model_dump(pair[1]) \cup model_dump(pair[2]) :
                d[kv[1]] = kv[2]

\* C27 witness: a document created with full_name "Ab" holds the full_name
\* one update supplied and the work_address and a_type another supplied
C27_Witness ==
    /\ resp.op = "update" /\ resp.rowcount = 1
    /\ \E d \in docs :
        /\ d.id = resp.id /\ d.pini = Some(Pini2)
        /\ d.full_name = Some(NameB)
        /\ d.work_address = Some(Work1) /\ d.a_type = Some(TRUE)
        /\ d.examination_date # None

\* examination_date and valid_date are both unset or both set
DatesPaired(d) == (d.examination_date = None) <=> (d.valid_date = None)

\* C28: in every reachable state each stored document has both dates unset or
\* both set; the row a create inserts has both unset; and whichever update
\* request arrives, the document of its id has both set afterwards
C28_DatesSetTogether ==
    /\ \A d \in docs : DatesPaired(d)
    /\ \A id \in ReqIds, body \in CreateBodies :
            /\ Document(id, body).examination_date = None
            /\ Document(id, body).valid_date = None
    /\ \A id \in ReqIds, body \in UpdateBodies, now \in Clock :
            \A d \in update_document(docs, id, body, now) :
                /\ DatesPaired(d)
                /\ d.id = id =>
                        d.examination_date # None /\ d.valid_date # None

\* C28 witness: of two stored documents one has been updated and has both
\* dates set, the other has never been updated and has both unset
C28_Witness ==
    \E d \in docs, e \in docs :
        /\ d.examination_date # None /\ d.valid_date # None
        /\ e.examination_date = None /\ e.valid_date = None

\* an update body without the fields it sends as null
WithoutNulls(body) == {kv \in body : kv[2] # None}

\* C29: in every reachable state, whichever update request arrives, it does
\* what the same request without its null fields does, and every field of a
\* stored document that is set is still set afterwards
C29_UpdateCannotClear ==
    \A id \in ReqIds, body \in UpdateBodies, now \in Clock :
        LET after == update_document(docs, id, body, now) IN
        /\ after = update_document(docs, id, WithoutNulls(body), now)
        /\ \A d \in docs, e \in after : d.id = e.id =>
                \A c \in Columns \ {"id"} : d[c] # None => e[c] # None

\* C29 witness: an update has just been applied while a stored document has
\* work_address and a_type set, the fields one update body sends as null
C29_Witness ==
    /\ resp.op = "update" /\ resp.kind = "result"
    /\ \E d \in docs : d.work_address # None /\ d.a_type # None

\* C30: in every reachable state with the table present, a read request
\* with an id gets what it gets without its query, whatever the query; and
\* with no id and the empty string as query it gets what it gets with no
\* query: the list of all stored documents
C30_IdFirstEmptyQueryIsAll ==
    tableExists =>
        /\ \A id \in ReqIds, query \in Queries :
                get_documents(docs, id, query) = get_documents(docs, id, None)
        /\ get_documents(docs, 0 - 1, Some(<<>>))
                = get_documents(docs, 0 - 1, None)
        /\ get_documents(docs, 0 - 1, Some(<<>>)).kind = "list"
        /\ get_documents(docs, 0 - 1, Some(<<>>)).rows = docs

\* C30 witness: a read request with neither id nor a non-empty query has
\* just returned the two stored documents
C30_Witness ==
    /\ resp.op = "list" /\ resp.kind = "list"
    /\ resp.rows = docs /\ Cardinality(docs) = 2

====
